---- MODULE Spec2Model ----
(***************************************************************************)
(* Model of createproject.py: the ProjectCreator context manager and the   *)
(* three phases main() runs inside it (setup_dirs, copy_project_template,  *)
(* setup_git), statement by statement, over an abstract filesystem.        *)
(*                                                                         *)
(* A path is a sequence of segments; the filesystem is a function from the *)
(* existing paths to their kind ("dir" or "file").                         *)
(***************************************************************************)
EXTENDS Integers, Sequences, FiniteSets, TLC

\* ---------------------------------------------------------------- bounds
\* Number of times main() is run against the same filesystem.
MaxRuns == 2
\* Largest number of template resources missing from the template directory.
MaxMissing == 1

\* Project names main() is called with.
Names == {"foo", "projectname"}

\* The directory main() is started in.
StartDir == <<"work">>

\* ------------------------------------------------------- program constants
git_modules ==
  << [path |-> <<"hardware", "includes", "CrumpPrints.pretty">>,
      url  |-> "https://github.com/tylercrumpton/CrumpPrints.pretty.git"],
     [path |-> <<"hardware", "includes", "CrumpSchemes">>,
      url  |-> "https://github.com/tylercrumpton/CrumpSchemes.git"],
     [path |-> <<"hardware", "includes", "CrumpPrintSymbols.pretty">>,
      url  |-> "https://github.com/tylercrumpton/CrumpPrintSymbols.pretty.git"] >>

\* The resources copy_project_template reads, in the order it reads them.
TemplateNames ==
  << "DOTgitignore", "projectname.kicad_pcb", "projectname.pro",
     "projectname.sch", "fp-lib-table", "sym-lib-table" >>

TemplateSet == { TemplateNames[i] : i \in 1..Len(TemplateNames) }

Exceptions ==
  { "ProjectAlreadyExistsError", "FileExistsError", "FileNotFoundError",
    "NotADirectoryError", "IsADirectoryError", "OSError",
    "CalledProcessError" }

\* ------------------------------------------------------------- filesystem
\* os.path.join of a path and one segment
join(p, seg) == Append(p, seg)

\* os.path.join of a path and a relative path of several segments
joinrel(p, rel) == p \o rel

Parent(p) == SubSeq(p, 1, Len(p) - 1)

IsPrefix(p, q) == Len(p) <= Len(q) /\ SubSeq(q, 1, Len(p)) = p

exists(f, p) == p \in DOMAIN f

isdir(f, p) == p \in DOMAIN f /\ f[p] = "dir"

\* the filesystem f with an entry of kind k at p
Put(f, p, k) == [q \in DOMAIN f \cup {p} |-> IF q = p THEN k ELSE f[q]]

\* Proper ancestors of p (the root <<>> left out).
Ancestors(p) == { SubSeq(p, 1, n) : n \in 1..(Len(p) - 1) }

\* os.makedirs(p), exist_ok=False: the exception it raises, or "None"
makedirs_exc(f, p) ==
  IF exists(f, p) THEN "FileExistsError"
  ELSE IF \E a \in Ancestors(p) : exists(f, a) /\ f[a] # "dir"
       THEN "NotADirectoryError"
       ELSE "None"

\* os.makedirs(p): the filesystem after a call that does not raise
makedirs(f, p) ==
  [q \in DOMAIN f \cup Ancestors(p) \cup {p} |->
      IF q \in DOMAIN f THEN f[q] ELSE "dir"]

\* shutil.rmtree(p): the exception it raises, or "None"
rmtree_exc(f, p) ==
  IF ~exists(f, p) THEN "FileNotFoundError"
  ELSE IF f[p] # "dir" THEN "NotADirectoryError"
       ELSE "None"

\* shutil.rmtree(p): p and everything under it is gone
rmtree(f, p) == [q \in { r \in DOMAIN f : ~IsPrefix(p, r) } |-> f[q]]

\* shutil.copy(src, dst): the file it writes. A dst that is a directory
\* receives the file under the source's base name.
copy_target(f, srcname, dst) == IF isdir(f, dst) THEN join(dst, srcname) ELSE dst

\* shutil.copy / open(.., "a"): the exception writing a file at p raises
write_exc(f, p) ==
  IF ~isdir(f, Parent(p)) THEN "FileNotFoundError"
  ELSE IF isdir(f, p) THEN "IsADirectoryError"
       ELSE "None"

\* ------------------------------------------------------------------ state
VARIABLES
  fs,                          \* the filesystem: existing path -> kind
  cwd,                         \* the process working directory
  templates,                   \* resources present in the template directory
  git_installed,               \* whether the git executable can be launched
  project_name,                \* ProjectCreator.project_name
  layout,                      \* ProjectCreator's five path attributes
  has_started_creating_dirs,   \* ProjectCreator.has_started_creating_dirs
  saved_path,                  \* cd.saved_path
  pc,                          \* the statement main() is about to execute
  idx,                         \* position inside the current run of calls
  etype,                       \* exception in flight / given to __exit__
  exit_code,                   \* exit status of the process, -1 while running
  log,                         \* calls made by this run, in order
  fs0,                         \* the filesystem when this run started
  finished                     \* one record per run that has ended

vars ==
  << fs, cwd, templates, git_installed, project_name, layout,
     has_started_creating_dirs, saved_path, pc, idx, etype, exit_code,
     log, fs0, finished >>

\* The includes directory planned next to hardware instead of inside it.
ProjectCreatorInit_FlatIncludes(name, curdir) ==
  LET project_path  == join(curdir, name)
      hardware_path == join(project_path, "hardware")
      include_path  == join(project_path, "includes")
  IN  [ current_path          |-> curdir,
        project_path          |-> project_path,
        hardware_path         |-> hardware_path,
        include_path          |-> include_path,
        project_specific_path |-> join(include_path, "ProjectSpecific.pretty") ]

\* ProjectCreator.__init__: the paths derived from the name
ProjectCreatorInit(name, curdir) ==
  LET project_path  == join(curdir, name)
      hardware_path == join(project_path, "hardware")
      include_path  == join(hardware_path, "includes")
  IN  [ current_path          |-> curdir,
        project_path          |-> project_path,
        hardware_path         |-> hardware_path,
        include_path          |-> include_path,
        project_specific_path |-> join(include_path, "ProjectSpecific.pretty") ]

\* What may already sit at the project path before the first run.
InitialTrees(root) ==
  { << >>,
    (root :> "file"),
    (root :> "dir"),
    (root :> "dir") @@ (join(root, "notes.txt") :> "file"),
    (root :> "dir") @@ (join(root, "hardware") :> "dir") }

Event(op, n, res) == [op |-> op, n |-> n, res |-> res]

Init ==
  /\ project_name \in Names
  /\ layout = ProjectCreatorInit(project_name, StartDir)
  /\ \E t \in InitialTrees(layout.project_path) : fs = (StartDir :> "dir") @@ t
  /\ fs0 = fs
  /\ cwd = StartDir
  /\ \E missing \in SUBSET TemplateSet :
        /\ Cardinality(missing) <= MaxMissing
        /\ templates = TemplateSet \ missing
  /\ git_installed \in BOOLEAN
  /\ has_started_creating_dirs = FALSE
  /\ saved_path = StartDir
  /\ pc = "setup_dirs"
  /\ idx = 0
  /\ etype = "None"
  /\ exit_code = -1
  /\ log = << >>
  /\ finished = << >>

\* ------------------------------------------------------------ control flow
\* An exception raised in the body of main()'s with block outside cd.
Raise(exc) ==
  /\ etype' = exc
  /\ pc' = "__exit__"

\* An exception leaving the cd block with cd.__exit__ not run.
RaiseInCd_NoRestore(exc) ==
  /\ etype' = exc
  /\ pc' = "__exit__"

\* An exception raised inside setup_git's "with cd(...)" block: cd.__exit__
\* runs first.
RaiseInCd(exc) ==
  /\ etype' = exc
  /\ pc' = "cd_exit"

\* main() with the call of copy_project_template left out.
NextStmt_NoCopy(p) ==
  CASE p = "makedirs" -> "gitkeep"
    [] p = "copy"     -> "gitkeep"
    [] p = "gitkeep"  -> "cd_enter"
    [] p = "cd_enter" -> "git_init"
    [] p = "git_init" -> "submodule"
    [] p = "submodule" -> "git_add"
    [] p = "git_add"  -> "cd_exit"

\* setup_git staging right after git init, the submodule loop left out.
NextStmt_StageFirst(p) ==
  CASE p = "makedirs" -> "copy"
    [] p = "copy"     -> "gitkeep"
    [] p = "gitkeep"  -> "cd_enter"
    [] p = "cd_enter" -> "git_init"
    [] p = "git_init" -> "git_add"
    [] p = "submodule" -> "git_add"
    [] p = "git_add"  -> "cd_exit"

\* The statement that runs when the calls at p have all returned: the order
\* of the three calls in main (lines 152-154) and of the statements of
\* setup_git (lines 85-98).
NextStmt(p) ==
  CASE p = "makedirs" -> "copy"
    [] p = "copy"     -> "gitkeep"
    [] p = "gitkeep"  -> "cd_enter"
    [] p = "cd_enter" -> "git_init"
    [] p = "git_init" -> "submodule"
    [] p = "submodule" -> "git_add"
    [] p = "git_add"  -> "cd_exit"

\* ---------------------------------------------------------------- setup_dirs
\* Line 107, the expression statement "self.has_started_creating_dirs":
\* the value of the attribute after it.
Line107(flag) == flag

\* setup_dirs without its existence check.
ProjectExists_Never(f, p) == FALSE

\* Line 102, the existence check of setup_dirs.
ProjectExists(f, p) == isdir(f, p)

\* setup_dirs, lines 102-107: the existence check and the statement after it.
SetupDirsCheck ==
  /\ pc = "setup_dirs"
  /\ IF ProjectExists(fs, layout.project_path)
     THEN /\ Raise("ProjectAlreadyExistsError")
          /\ UNCHANGED << has_started_creating_dirs, idx >>
     ELSE /\ has_started_creating_dirs' = Line107(has_started_creating_dirs)
          /\ pc' = "makedirs"
          /\ idx' = 1
          /\ UNCHANGED etype
  /\ UNCHANGED << fs, cwd, templates, git_installed, project_name, layout,
                  saved_path, exit_code, log, fs0, finished >>

\* The four makedirs calls made deepest directory first.
DirChain_DeepestFirst(l) ==
  << l.project_specific_path, l.include_path, l.hardware_path, l.project_path >>

\* The directories setup_dirs makes, in the order of lines 110-113.
DirChain(l) ==
  << l.project_path, l.hardware_path, l.include_path, l.project_specific_path >>

\* setup_dirs, lines 110-113: one os.makedirs call. The call can also fail
\* for a reason the model does not track (permissions, disk full).
Makedirs ==
  /\ pc = "makedirs"
  /\ \E fault \in BOOLEAN :
       LET p   == DirChain(layout)[idx]
           exc == IF fault THEN "OSError" ELSE makedirs_exc(fs, p)
       IN  IF exc # "None"
           THEN /\ Raise(exc)
                /\ log' = Append(log, Event("makedirs", idx, "raise"))
                /\ UNCHANGED << fs, idx >>
           ELSE /\ fs' = makedirs(fs, p)
                /\ log' = Append(log, Event("makedirs", idx, "ok"))
                /\ IF idx < Len(DirChain(layout))
                   THEN /\ idx' = idx + 1
                        /\ pc' = "makedirs"
                   ELSE /\ idx' = 1
                        /\ pc' = NextStmt("makedirs")
                /\ UNCHANGED etype
  /\ UNCHANGED << cwd, templates, git_installed, project_name, layout,
                  has_started_creating_dirs, saved_path, exit_code, fs0,
                  finished >>

\* ------------------------------------------------------ copy_project_template
\* The destinations with the template's own file names kept.
CopyDst_NoRename(l, name, n) ==
  CASE n = 1 -> join(l.project_path, ".gitignore")
    [] n = 2 -> join(l.hardware_path, "projectname.kicad_pcb")
    [] n = 3 -> join(l.hardware_path, "projectname.pro")
    [] n = 4 -> join(l.hardware_path, "projectname.sch")
    [] n = 5 -> l.hardware_path
    [] n = 6 -> l.hardware_path

\* The destination argument of the n-th shutil.copy call, lines 118-141.
CopyDst(l, name, n) ==
  CASE n = 1 -> join(l.project_path, ".gitignore")
    [] n = 2 -> join(l.hardware_path, name \o ".kicad_pcb")
    [] n = 3 -> join(l.hardware_path, name \o ".pro")
    [] n = 4 -> join(l.hardware_path, name \o ".sch")
    [] n = 5 -> l.hardware_path
    [] n = 6 -> l.hardware_path

\* A copy that passes over an absent source instead of raising.
shutil_copy_exc_Skip(present, f, src, dst, fault) ==
  IF src \in present /\ fault THEN "OSError" ELSE write_exc(f, dst)

\* shutil.copy(template_path/src, dst): the exception it raises, or "None".
\* A source that is absent raises before anything is written.
shutil_copy_exc(present, f, src, dst, fault) ==
  IF src \notin present THEN "FileNotFoundError"
  ELSE IF fault THEN "OSError"
  ELSE write_exc(f, dst)

\* copy_project_template: one shutil.copy call.
Copy ==
  /\ pc = "copy"
  /\ \E fault \in BOOLEAN :
       LET src == TemplateNames[idx]
           dst == copy_target(fs, src, CopyDst(layout, project_name, idx))
           exc == shutil_copy_exc(templates, fs, src, dst, fault)
       IN  IF exc # "None"
           THEN /\ Raise(exc)
                /\ log' = Append(log, Event("copy", idx, "raise"))
                /\ UNCHANGED << fs, idx >>
           ELSE /\ fs' = Put(fs, dst, "file")
                /\ log' = Append(log, Event("copy", idx, "ok"))
                /\ IF idx < Len(TemplateNames)
                   THEN /\ idx' = idx + 1
                        /\ pc' = "copy"
                   ELSE /\ idx' = 0
                        /\ pc' = NextStmt("copy")
                /\ UNCHANGED etype
  /\ UNCHANGED << cwd, templates, git_installed, project_name, layout,
                  has_started_creating_dirs, saved_path, exit_code, fs0,
                  finished >>

\* ------------------------------------------------------------------ git
\* Whether directory d is the top of a git work tree.
IsRepo(f, d) == isdir(f, join(d, ".git"))

\* Exit statuses "git init" can end with when run in d: success, or the
\* status of a fatal error.
GitInitStatuses(f, d) == {0, 128}

\* Exit statuses "git submodule add" and "git add ." can end with in d:
\* outside a repository they can only fail.
GitRepoStatuses(f, d) == IF IsRepo(f, d) THEN {0, 128} ELSE {128}

\* The filesystem after "git init" exits with 0 in d.
GitInitEffect(f, d) == Put(f, join(d, ".git"), "dir")

\* The filesystem after "git submodule add url path" exits with 0 in d.
GitSubmoduleEffect(f, d, path) ==
  Put(makedirs(f, joinrel(d, path)), join(d, ".gitmodules"), "file")

\* subprocess.run(args, check=True): a non-zero exit status raises.
subprocess_run_exc_Check(installed, status) ==
  IF ~installed THEN "FileNotFoundError"
  ELSE IF status # 0 THEN "CalledProcessError" ELSE "None"

\* subprocess.run(args) as setup_git calls it (no check=True): the exception
\* it raises. The exit status of the command is not looked at.
subprocess_run_exc(installed, status) ==
  IF ~installed THEN "FileNotFoundError" ELSE "None"

\* How a git command ended: not launched, exit status 0, or another status.
Result(installed, status) ==
  IF ~installed THEN "noexec" ELSE IF status = 0 THEN "ok" ELSE "fail"

\* ---------------------------------------------------------------- setup_git
\* setup_git, line 85: the .gitkeep marker is created.
Gitkeep ==
  /\ pc = "gitkeep"
  /\ \E fault \in BOOLEAN :
       LET p   == join(layout.project_specific_path, ".gitkeep")
           exc == IF fault THEN "OSError" ELSE write_exc(fs, p)
       IN  IF exc # "None"
           THEN /\ Raise(exc)
                /\ log' = Append(log, Event("gitkeep", 0, "raise"))
                /\ UNCHANGED fs
           ELSE /\ fs' = Put(fs, p, "file")
                /\ log' = Append(log, Event("gitkeep", 0, "ok"))
                /\ pc' = NextStmt("gitkeep")
                /\ UNCHANGED etype
  /\ UNCHANGED << cwd, templates, git_installed, project_name, layout,
                  has_started_creating_dirs, saved_path, idx, exit_code, fs0,
                  finished >>

\* cd.__enter__, lines 47-49, entered from line 87. When os.chdir raises,
\* cd.__exit__ is not run.
CdEnter ==
  /\ pc = "cd_enter"
  /\ saved_path' = cwd
  /\ IF isdir(fs, layout.project_path)
     THEN /\ cwd' = layout.project_path
          /\ pc' = NextStmt("cd_enter")
          /\ UNCHANGED etype
     ELSE /\ Raise("FileNotFoundError")
          /\ UNCHANGED cwd
  /\ UNCHANGED << fs, templates, git_installed, project_name, layout,
                  has_started_creating_dirs, idx, exit_code, log, fs0,
                  finished >>

\* setup_git, line 88: git init
GitInit ==
  /\ pc = "git_init"
  /\ \E status \in GitInitStatuses(fs, cwd) :
       LET exc == subprocess_run_exc(git_installed, status)
       IN  /\ log' = Append(log, Event("git_init", 0,
                                        Result(git_installed, status)))
           /\ IF exc # "None"
              THEN /\ RaiseInCd(exc)
                   /\ UNCHANGED << fs, idx >>
              ELSE /\ fs' = IF status = 0 THEN GitInitEffect(fs, cwd) ELSE fs
                   /\ pc' = NextStmt("git_init")
                   /\ idx' = 1
                   /\ UNCHANGED etype
  /\ UNCHANGED << cwd, templates, git_installed, project_name, layout,
                  has_started_creating_dirs, saved_path, exit_code, fs0,
                  finished >>

\* setup_git, lines 91-95: one iteration of the loop over git_modules
GitSubmoduleAdd ==
  /\ pc = "submodule"
  /\ \E status \in GitRepoStatuses(fs, cwd) :
       LET exc == subprocess_run_exc(git_installed, status)
       IN  /\ log' = Append(log, Event("submodule", idx,
                                        Result(git_installed, status)))
           /\ IF exc # "None"
              THEN /\ RaiseInCd(exc)
                   /\ UNCHANGED << fs, idx >>
              ELSE /\ fs' = IF status = 0
                            THEN GitSubmoduleEffect(fs, cwd,
                                                    git_modules[idx].path)
                            ELSE fs
                   /\ IF idx < Len(git_modules)
                      THEN /\ idx' = idx + 1
                           /\ pc' = "submodule"
                      ELSE /\ idx' = 0
                           /\ pc' = NextStmt("submodule")
                   /\ UNCHANGED etype
  /\ UNCHANGED << cwd, templates, git_installed, project_name, layout,
                  has_started_creating_dirs, saved_path, exit_code, fs0,
                  finished >>

\* setup_git, line 98: git add .
GitAdd ==
  /\ pc = "git_add"
  /\ \E status \in GitRepoStatuses(fs, cwd) :
       LET exc == subprocess_run_exc(git_installed, status)
       IN  /\ log' = Append(log, Event("git_add", 0,
                                        Result(git_installed, status)))
           /\ etype' = exc
           /\ pc' = NextStmt("git_add")
  /\ UNCHANGED << fs, cwd, templates, git_installed, project_name, layout,
                  has_started_creating_dirs, saved_path, idx, exit_code, fs0,
                  finished >>

\* cd.__exit__, lines 51-52: the directory is restored and the exception,
\* if any, goes on to ProjectCreator.__exit__.
CdExit ==
  /\ pc = "cd_exit"
  /\ cwd' = saved_path
  /\ pc' = "__exit__"
  /\ UNCHANGED << fs, templates, git_installed, project_name, layout,
                  has_started_creating_dirs, saved_path, idx, etype,
                  exit_code, log, fs0, finished >>

\* ------------------------------------------------- ProjectCreator.__exit__
\* __exit__ removing the directory after any exception, the flag not consulted.
ShouldRollback_NoFlag(et, flag) == et # "None"

\* Line 79: whether __exit__ removes the project directory.
ShouldRollback(et, flag) == et # "None" /\ flag

\* Line 81: the value __exit__ returns; a true value suppresses the exception.
ExitReturn(et) == TRUE

\* The exit status of the process once the with block is left with
\* exception et still propagating ("None": main returns).
ProcessExit(et) == IF et = "None" THEN 0 ELSE 1

\* __exit__, lines 77-81, and the end of main().
Exit ==
  /\ pc = "__exit__"
  /\ LET rb   == ShouldRollback(etype, has_started_creating_dirs)
         rexc == IF rb THEN rmtree_exc(fs, layout.project_path) ELSE "None"
         out  == IF rexc # "None" THEN rexc
                 ELSE IF ExitReturn(etype) THEN "None" ELSE etype
     IN  /\ fs' = IF rb /\ rexc = "None"
                  THEN rmtree(fs, layout.project_path) ELSE fs
         /\ exit_code' = ProcessExit(out)
         /\ finished' = Append(finished,
                               [name |-> project_name, etype |-> etype,
                                exit_code |-> ProcessExit(out), fs |-> fs'])
  /\ pc' = "done"
  /\ UNCHANGED << cwd, templates, git_installed, project_name, layout,
                  has_started_creating_dirs, saved_path, idx, etype, log, fs0 >>

\* main() is run again, on the filesystem the earlier runs left.
NewRun ==
  /\ pc = "done"
  /\ Len(finished) < MaxRuns
  /\ \E name \in Names :
       /\ project_name' = name
       /\ layout' = ProjectCreatorInit(name, cwd)
  /\ has_started_creating_dirs' = FALSE
  /\ pc' = "setup_dirs"
  /\ idx' = 0
  /\ etype' = "None"
  /\ exit_code' = -1
  /\ log' = << >>
  /\ fs0' = fs
  /\ UNCHANGED << fs, cwd, templates, git_installed, saved_path, finished >>

Next ==
  \/ SetupDirsCheck
  \/ Makedirs
  \/ Copy
  \/ Gitkeep
  \/ CdEnter
  \/ GitInit
  \/ GitSubmoduleAdd
  \/ GitAdd
  \/ CdExit
  \/ Exit
  \/ NewRun

Spec == Init /\ [][Next]_vars

\* Every statement returns: the run always takes its next step.
FairSpec == Spec /\ WF_vars(Next)

TypeOK ==
  /\ pc \in { "setup_dirs", "makedirs", "copy", "gitkeep", "cd_enter",
              "git_init", "submodule", "git_add", "cd_exit", "__exit__",
              "done" }
  /\ etype \in Exceptions \cup {"None"}
  /\ has_started_creating_dirs \in BOOLEAN
  /\ exit_code \in {-1, 0, 1}
  /\ project_name \in Names
  /\ Len(finished) <= MaxRuns

\* ------------------------------------------------------------- vocabulary
Root == layout.project_path

\* The run has ended.
Done == pc = "done"

\* The body of the with block ran to its end: all three phases returned.
Completed == pc = "done" /\ etype = "None"

\* Some call of this run that matches (op, n) ended with result res.
Logged(op, n, res) ==
  \E i \in 1..Len(log) : log[i] = Event(op, n, res)

\* This run has reached the os.makedirs calls of setup_dirs.
CreationBegun == log # << >>

\* ------------------------------------------------------------------ claims

\* C1 (atomicity): when a step raises after directory creation has begun,
\* in a run that started with nothing at the project root, the project root
\* does not exist once the guard has exited.
C1_Atomicity ==
  (Done /\ ~exists(fs0, Root) /\ CreationBegun /\ etype # "None")
     => ~exists(fs, Root)

\* C2 (no mutation on early rejection): in a run that starts with the project
\* root present as a directory, setup_dirs raises ProjectAlreadyExistsError
\* with has_started_creating_dirs still false and no call made, and the
\* filesystem stays what it was, up to and after the exit of the guard.
C2_NoMutationOnEarlyRejection ==
  isdir(fs0, Root) =>
     /\ fs = fs0
     /\ ~has_started_creating_dirs
     /\ log = << >>
     /\ pc \in {"setup_dirs", "__exit__", "done"}
     /\ pc # "setup_dirs" => etype = "ProjectAlreadyExistsError"

\* C2 witness: a run rejected on a root that held a file has ended.
C2_Witness ==
  /\ Done
  /\ Len(finished) = 1
  /\ exists(fs0, join(Root, "notes.txt"))
  /\ etype = "ProjectAlreadyExistsError"

\* A run that follows a completed run of the same name.
SecondOf(i) ==
  /\ i >= 1
  /\ finished[i].etype = "None"
  /\ finished[i].name = project_name

\* C3 (idempotent precondition): a run started after a run of the same name
\* completed, its result left in place, ends with ProjectAlreadyExistsError
\* and never changes the tree the first run produced.
C3_IdempotentPrecondition ==
  /\ \A i \in 1..(Len(finished) - 1) :
        (finished[i].etype = "None" /\ finished[i].name = finished[i+1].name)
           => /\ finished[i+1].etype = "ProjectAlreadyExistsError"
              /\ finished[i+1].fs = finished[i].fs
  /\ (pc # "done" /\ SecondOf(Len(finished)))
        => /\ fs = finished[Len(finished)].fs
           /\ etype \in {"None", "ProjectAlreadyExistsError"}

\* C3 witness: the second of two runs of the same name has ended after the
\* first completed.
C3_Witness ==
  /\ Done
  /\ Len(finished) = 2
  /\ finished[1].etype = "None"
  /\ finished[1].name = finished[2].name
  /\ exists(fs, join(join(Root, "hardware"), "sym-lib-table"))

\* C4 (error visibility): the process exits 0 only when all three phases
\* completed; every failure of the guarded sequence gives a non-zero exit.
C4_ErrorVisibility ==
  Done => (exit_code = 0 <=> etype = "None")

\* Every entry of git_modules below position k has had its submodule add.
SubmodulesAttempted(k) ==
  \A n \in 1..(k - 1) :
     Logged("submodule", n, "ok") \/ Logged("submodule", n, "fail")

SubmoduleFailed ==
  \E n \in 1..Len(git_modules) : Logged("submodule", n, "fail")

isfile(f, p) == exists(f, p) /\ f[p] = "file"

MarkerPath == join(layout.project_specific_path, ".gitkeep")

\* The files and directories of the finished project.
LayoutPresent ==
  /\ isfile(fs, join(Root, ".gitignore"))
  /\ isfile(fs, join(layout.hardware_path, project_name \o ".kicad_pcb"))
  /\ isfile(fs, join(layout.hardware_path, project_name \o ".pro"))
  /\ isfile(fs, join(layout.hardware_path, project_name \o ".sch"))
  /\ isfile(fs, join(layout.hardware_path, "fp-lib-table"))
  /\ isfile(fs, join(layout.hardware_path, "sym-lib-table"))
  /\ isdir(fs, layout.project_specific_path)
  /\ isfile(fs, MarkerPath)

\* C5 (submodule failure isolation): once a submodule add has failed, no
\* exception is in flight, the loop goes on to every entry of git_modules,
\* git add . is run, the run ends completed and the project tree is there.
C5_SubmoduleFailureIsolation ==
  SubmoduleFailed =>
     /\ etype = "None"
     /\ pc \in {"submodule", "git_add", "cd_exit", "__exit__", "done"}
     /\ pc = "submodule" => SubmodulesAttempted(idx)
     /\ pc # "submodule" => SubmodulesAttempted(Len(git_modules) + 1)
     /\ pc \in {"cd_exit", "__exit__", "done"} =>
           (Logged("git_add", 0, "ok") \/ Logged("git_add", 0, "fail"))
     /\ Done => Completed
     /\ isdir(fs, Root)
     /\ LayoutPresent

\* C5 witness: a run has ended in which the first and the third submodule
\* add failed and the second succeeded.
C5_Witness ==
  /\ Done
  /\ Logged("submodule", 1, "fail")
  /\ Logged("submodule", 2, "ok")
  /\ Logged("submodule", 3, "fail")

\* C6 (init and staging are fatal): a run in which git init or git add .
\* failed does not complete and leaves no project root.
C6_InitAndStagingFatal ==
  (Done /\ (Logged("git_init", 0, "fail") \/ Logged("git_add", 0, "fail")))
     => (etype # "None" /\ ~exists(fs, Root))

SetupGitOps == {"gitkeep", "git_init", "submodule", "git_add"}

\* C7 (missing template): with a template resource absent, setup_git is
\* never entered (no marker file, no git command), no run completes, and a
\* run that gets to copy_project_template ends in a shutil.copy that raised,
\* with FileNotFoundError when it is the copy of the absent resource.
C7_MissingTemplate ==
  templates # TemplateSet =>
     /\ pc \notin {"gitkeep", "cd_enter", "git_init", "submodule", "git_add",
                   "cd_exit"}
     /\ \A i \in 1..Len(log) : log[i].op \notin SetupGitOps
     /\ ~exists(fs, MarkerPath)
     /\ ~IsRepo(fs, Root)
     /\ ~Completed
     /\ \A n \in 1..Len(TemplateNames) :
           Logged("copy", n, "ok") => TemplateNames[n] \in templates
     /\ (Done /\ Logged("makedirs", Len(DirChain(layout)), "ok")) =>
           /\ etype \in {"FileNotFoundError", "OSError"}
           /\ log[Len(log)].op = "copy"
           /\ log[Len(log)].res = "raise"
           /\ TemplateNames[log[Len(log)].n] \notin templates
                 => etype = "FileNotFoundError"

\* C7 witness: sym-lib-table is absent and the run has ended in its copy.
C7_Witness ==
  /\ Done
  /\ "sym-lib-table" \notin templates
  /\ Logged("copy", 6, "raise")
  /\ etype = "FileNotFoundError"

GenericNames == {"projectname.kicad_pcb", "projectname.pro", "projectname.sch"}

NoGenericName ==
  \A g \in GenericNames : ~exists(fs, join(layout.hardware_path, g))

\* C8 as stated (layout and naming): a completed run leaves the whole layout
\* and no file named projectname.* in the hardware directory.
C8_SuccessPostcondition ==
  Completed => (LayoutPresent /\ NoGenericName)

\* C8 as amended: a completed run leaves the whole layout, and no file named
\* projectname.* in the hardware directory unless the project is itself
\* named projectname.
C8_SuccessPostconditionAmended ==
  Completed =>
     /\ LayoutPresent
     /\ project_name # "projectname" => NoGenericName

\* C8 witness: a run for the name foo has completed.
C8_Witness ==
  /\ Completed
  /\ project_name = "foo"
  /\ isfile(fs, join(layout.hardware_path, "foo.sch"))

\* The three terminal states of a creation attempt.
COMPLETE == etype = "None" /\ LayoutPresent

ROLLED_BACK == etype # "None" /\ CreationBegun /\ ~exists(fs, Root)

FAILED_PRECONDITION ==
  etype = "ProjectAlreadyExistsError" /\ ~CreationBegun /\ fs = fs0

\* C9 (terminal states): a run that started with the project root absent or
\* a directory ends in exactly one of COMPLETE, ROLLED_BACK and
\* FAILED_PRECONDITION, so never with a partly built tree on disk.
C9_TerminalStates ==
  (Done /\ (exists(fs0, Root) => isdir(fs0, Root))) =>
     Cardinality({ t \in {"C", "R", "F"} :
                     \/ t = "C" /\ COMPLETE
                     \/ t = "R" /\ ROLLED_BACK
                     \/ t = "F" /\ FAILED_PRECONDITION }) = 1

\* C10 (rollback eligibility flag): has_started_creating_dirs is false until
\* the existence check has passed and true from then on, so true whenever a
\* directory of this attempt has been made.
C10_RollbackFlag ==
  /\ pc = "setup_dirs" => ~has_started_creating_dirs
  /\ pc = "makedirs" => has_started_creating_dirs
  /\ (\E n \in 1..Len(DirChain(layout)) : Logged("makedirs", n, "ok"))
        => has_started_creating_dirs

\* The phase a logged call belongs to.
PhaseOf(op) ==
  CASE op = "makedirs" -> 1
    [] op = "copy"     -> 2
    [] op \in SetupGitOps -> 3

\* Call (op, n) returned normally at a position of the log before i.
OkBefore(op, n, i) ==
  \E j \in 1..(i - 1) : log[j] = Event(op, n, "ok")

DirsPresent ==
  \A n \in 1..Len(DirChain(layout)) : isdir(fs, DirChain(layout)[n])

TemplatesCopied ==
  /\ isfile(fs, join(Root, ".gitignore"))
  /\ isfile(fs, join(layout.hardware_path, project_name \o ".kicad_pcb"))
  /\ isfile(fs, join(layout.hardware_path, project_name \o ".pro"))
  /\ isfile(fs, join(layout.hardware_path, project_name \o ".sch"))
  /\ isfile(fs, join(layout.hardware_path, "fp-lib-table"))
  /\ isfile(fs, join(layout.hardware_path, "sym-lib-table"))

SetupGitPcs == {"gitkeep", "cd_enter", "git_init", "submodule", "git_add"}

\* C11 (phase ordering): the calls of one run are made in the order
\* setup_dirs, copy_project_template, setup_git, none of them twice, and
\* nothing is called after a call that raised; a template is copied only
\* after all four makedirs calls returned, and the marker file and the git
\* commands come only after all six copies returned.
C11_PhaseOrdering ==
  /\ \A i \in 1..Len(log) :
        /\ log[i].op = "copy" =>
              \A n \in 1..Len(DirChain(layout)) : OkBefore("makedirs", n, i)
        /\ log[i].op \in SetupGitOps =>
              \A n \in 1..Len(TemplateNames) : OkBefore("copy", n, i)
        /\ i < Len(log) => log[i].res \notin {"raise", "noexec"}
        /\ \A j \in (i + 1)..Len(log) :
              /\ PhaseOf(log[i].op) <= PhaseOf(log[j].op)
              /\ << log[i].op, log[i].n >> # << log[j].op, log[j].n >>
  /\ pc = "copy" => DirsPresent
  /\ pc \in SetupGitPcs => (DirsPresent /\ TemplatesCopied)

\* C11 witness: a run has gone through every call of the three phases.
C11_Witness ==
  /\ Completed
  /\ Len(log) = Len(DirChain(layout)) + Len(TemplateNames) + Len(git_modules) + 3
  /\ log[Len(DirChain(layout)) + 1].op = "copy"
  /\ log[Len(DirChain(layout)) + Len(TemplateNames) + 1].op = "gitkeep"

IsSetupGitEvent(e) == e.op \in SetupGitOps

\* The calls setup_git has made in this run, in order, results left out.
GitCalls ==
  LET g == SelectSeq(log, IsSetupGitEvent)
  IN  [i \in 1..Len(g) |-> << g[i].op, g[i].n >>]

\* The calls of a whole setup_git: the marker, git init, one submodule add
\* per entry of git_modules in list order, git add .
ExpectedGitCalls ==
  << << "gitkeep", 0 >>, << "git_init", 0 >> >>
    \o [i \in 1..Len(git_modules) |-> << "submodule", i >>]
    \o << << "git_add", 0 >> >>

\* C12 (ordering inside setup_git): the calls setup_git has made are always
\* an initial part of: marker file, git init, submodule add for each entry of
\* git_modules in list order, git add . -- each once, and all of them when
\* the run completes; the git commands run with the project root as working
\* directory, a submodule add that succeeded put its entry's path there, and
\* when git add . has run the marker file and the six template files exist.
C12_SetupGitOrdering ==
  /\ Len(GitCalls) <= Len(ExpectedGitCalls)
  /\ GitCalls = SubSeq(ExpectedGitCalls, 1, Len(GitCalls))
  /\ Completed => GitCalls = ExpectedGitCalls
  /\ pc \in {"git_init", "submodule", "git_add"} => cwd = Root
  /\ pc = "submodule" => Len(GitCalls) = idx + 1
  /\ \A n \in 1..Len(git_modules) :
        Logged("submodule", n, "ok") =>
           isdir(fs, joinrel(Root, git_modules[n].path))
  /\ (\E r \in {"ok", "fail", "noexec"} : Logged("git_add", 0, r)) =>
        /\ isfile(fs, MarkerPath)
        /\ TemplatesCopied
        /\ Logged("gitkeep", 0, "ok")

\* C12 witness: a completed run in which git add . and the last submodule
\* add succeeded.
C12_Witness ==
  /\ Completed
  /\ Logged("git_add", 0, "ok")
  /\ Logged("submodule", Len(git_modules), "ok")
  /\ Logged("submodule", 1, "fail")

\* root, hardware_dir, includes_dir, project_specific_dir
ChainOfDirs ==
  << Root, join(Root, "hardware"), join(join(Root, "hardware"), "includes"),
     join(join(join(Root, "hardware"), "includes"), "ProjectSpecific.pretty") >>

\* Positions of the chain whose directory this attempt has put on disk.
CreatedDirs ==
  { n \in 1..Len(ChainOfDirs) :
      isdir(fs, ChainOfDirs[n]) /\ ~exists(fs0, ChainOfDirs[n]) }

\* Number of makedirs calls of this run that returned.
NumMade ==
  Cardinality({ n \in 1..Len(ChainOfDirs) : Logged("makedirs", n, "ok") })

\* C13 (directory creation order): the makedirs calls are made for root,
\* hardware_dir, includes_dir, project_specific_dir in that order, and the
\* directories this attempt has created are exactly the first ones of that
\* chain, one per call that returned, also in the state where a call failed.
C13_DirectoryOrder ==
  /\ \A i \in 1..Len(log) : log[i].op = "makedirs" => log[i].n = i
  /\ \E k \in 0..Len(ChainOfDirs) : CreatedDirs = 1..k
  /\ pc # "done" => CreatedDirs = 1..NumMade
  /\ \A n \in 2..Len(ChainOfDirs) :
        n \in CreatedDirs => isdir(fs, ChainOfDirs[n - 1])

\* C13 witness: the third makedirs call has just failed, after two returned.
C13_Witness ==
  /\ pc = "__exit__"
  /\ Logged("makedirs", 3, "raise")
  /\ CreatedDirs = {1, 2}
  /\ ~exists(fs, layout.include_path)

\* C14 (existence precondition for every kind of entry): in a run that
\* starts with any entry at the project root, directory or not, setup_dirs
\* raises ProjectAlreadyExistsError straight from its check, the flag stays
\* false and the filesystem stays what it was.
C14_ExistenceAnyKind ==
  exists(fs0, Root) =>
     /\ fs = fs0
     /\ ~has_started_creating_dirs
     /\ pc \in {"setup_dirs", "__exit__", "done"}
     /\ pc # "setup_dirs" => etype = "ProjectAlreadyExistsError"

StrictlyUnder(p, r) == IsPrefix(r, p) /\ Len(p) > Len(r)

\* The layout of the current creator is the one planned from the directory
\* main() was started in and the project name.
LayoutAsPlanned ==
  /\ layout.current_path = StartDir
  /\ layout.project_path = StartDir \o << project_name >>
  /\ layout.hardware_path = StartDir \o << project_name, "hardware" >>
  /\ layout.include_path = StartDir \o << project_name, "hardware", "includes" >>
  /\ layout.project_specific_path =
        StartDir \o << project_name, "hardware", "includes",
                       "ProjectSpecific.pretty" >>
  /\ StrictlyUnder(layout.hardware_path, layout.project_path)
  /\ StrictlyUnder(layout.include_path, layout.project_path)
  /\ StrictlyUnder(layout.project_specific_path, layout.project_path)

\* C15 (layout planning): the layout is always root = cwd/name, hardware_dir
\* = root/hardware, includes_dir = hardware_dir/includes, project_specific_dir
\* = includes_dir/ProjectSpecific.pretty, the last three strictly under root,
\* and no step of a creator (phases, cd, __exit__) changes its name or layout.
C15_LayoutPlanning ==
  /\ []LayoutAsPlanned
  /\ [][pc # "done" => (layout' = layout /\ project_name' = project_name)]_vars

\* C15 witness: a second creator, made for another name than the first, has
\* got through setup_dirs and copy_project_template.
C15_Witness ==
  /\ Len(finished) = 1
  /\ finished[1].name = "foo"
  /\ project_name = "projectname"
  /\ pc = "gitkeep"

InCdBlock == pc \in {"git_init", "submodule", "git_add", "cd_exit"}

\* C16 (working directory restored): the working directory is the project
\* root only between cd.__enter__ and cd.__exit__; in every other state,
\* so after setup_git returned or raised and when __exit__ runs, it is the
\* directory the process was in before setup_git was called.
C16_CwdRestored ==
  /\ InCdBlock => (cwd = Root /\ saved_path = layout.current_path)
  /\ ~InCdBlock => (cwd = layout.current_path /\ cwd = StartDir)

\* C16 witness: git init raised inside the cd block and the exception has
\* reached ProjectCreator.__exit__.
C16_Witness ==
  /\ pc = "__exit__"
  /\ Logged("git_init", 0, "noexec")
  /\ etype = "FileNotFoundError"
  /\ cwd = StartDir

====
